---- MODULE Spec2Model ----
(***************************************************************************)
(* Query builders of ts-db-helper: QueryUpdate (where / set / build /      *)
(* exec) and QueryCreate (build).                                          *)
(*                                                                         *)
(* A SQL string is kept as the sequence of the pieces the code             *)
(* concatenates; a placeholder is the piece "?" on its own, so that the    *)
(* placeholders of a statement can be counted.  Sql(pieces) is the string. *)
(* JavaScript values are strings: "undefined", "null", "0" (the number 0), *)
(* "rel" (a related DbHelperModel instance), anything else a plain truthy  *)
(* value.                                                                  *)
(***************************************************************************)
EXTENDS Integers, Sequences, FiniteSets, TLC

\* model: what the builder was constructed with; whereClauses, valueSet: its
\* fields; heap: the caller's dictionaries, by reference; callerWhere: the
\* clauses the caller gave to where(); table: the table descriptor a Create
\* builder was constructed with; lastOp: the last call and its outcome
VARIABLES model, whereClauses, valueSet, heap, callerWhere, table, lastOp

vars == <<model, whereClauses, valueSet, heap, callerWhere, table, lastOp>>

\* Largest number of clauses a where-group is let to grow to.
MaxClauses == 3

\* Dictionaries the caller owns; valueSet holds a reference to one of them.
DictIds == {"d1", "d2", "d3"}
NoDict == "none"

Values == {"undefined", "0", "done", "rel"}
RowIds == {"undefined", "0", "7"}

Truthy(v) == v \notin {"undefined", "null", "0", ""}

\* value.$$isDbHelperModel of a column value
IsDbHelperModel(v) == v = "rel"

\* value[column.field] of the related model instance "rel"
RelatedField(v, field) == IF field = "ident" THEN "42" ELSE "undefined"

Column(n, f, t, pk, ai) ==
  [name |-> n, field |-> f, type |-> t, primaryKey |-> pk, autoIncrement |-> ai]

Classes == {"Todo", "Log", "Pair"}

\* ModelManager.getInstance().getModel(model): the table of the model's class
getModel(m) ==
  CASE m.class = "Todo" ->
         [name |-> "todo",
          columnList |-> << Column("id", "ident", "INTEGER", TRUE, TRUE),
                            Column("label", "title", "TEXT", FALSE, FALSE) >>]
    [] m.class = "Log" ->
         [name |-> "log",
          columnList |-> << Column("label", "title", "TEXT", FALSE, FALSE),
                            Column("status", "state", "TEXT", FALSE, FALSE) >>]
    [] OTHER ->
         [name |-> "pair",
          columnList |-> << Column("id", "ident", "INTEGER", TRUE, FALSE),
                            Column("label", "title", "TEXT", TRUE, FALSE) >>]

FieldsOf(class) ==
  {getModel([class |-> class]).columnList[i].field :
      i \in 1..Len(getModel([class |-> class]).columnList)}

\* this.model[field]: an own field of a live instance; a model class (the
\* constructor function) carries none of the instance's fields.
ModelField(m, field) ==
  IF m.isDbHelperModel THEN m.fields[field] ELSE "undefined"

\* DbHelperModel.getColumnValue(columnName): the instance's value for a column
getColumnValue(m, columnName) ==
  LET cl == getModel(m).columnList
      i == CHOOSE j \in 1..Len(cl) : cl[j].name = columnName
  IN  m.fields[cl[i].field]

----------------------------------------------------------------------------
\* Strings and query parts

RECURSIVE Sql(_)
Sql(pieces) == IF pieces = <<>> THEN "" ELSE Head(pieces) \o Sql(Tail(pieces))

\* Array.prototype.join, on pieces: sep is the separator's pieces
RECURSIVE Join(_, _)
Join(items, sep) ==
  IF items = <<>> THEN <<>>
  ELSE IF Len(items) = 1 THEN <<items[1]>>
  ELSE <<items[1]>> \o sep \o Join(Tail(items), sep)

\* new QueryPart()
EmptyPart == [content |-> <<>>, params |-> <<>>]

Clause(k, v) == [key |-> k, value |-> v]

\* Clause.build(): an equality clause, one placeholder and one parameter
ClauseBuild(clause) ==
  [content |-> <<clause.key, " = (", "?", ")">>, params |-> <<clause.value>>]

\* ClauseGroup.build(): the clauses in insertion order, joined by AND
RECURSIVE GroupBuild(_)
GroupBuild(clauses) ==
  IF clauses = <<>> THEN EmptyPart
  ELSE LET rest == GroupBuild(Tail(clauses))
           first == ClauseBuild(Head(clauses))
       IN  [content |-> first.content \o
                        (IF Tail(clauses) = <<>> THEN <<>> ELSE <<" AND ">>) \o
                        rest.content,
            params |-> first.params \o rest.params]

\* DbQuery.append(queryPart)
append(dbQuery, queryPart) ==
  [dbQuery EXCEPT !.query = @ \o <<" ">> \o queryPart.content,
                  !.params = @ \o queryPart.params]

\* ClauseGroup.add(clauses): appended in call order
GroupAdd(group, clauses) == group \o clauses

NoGroup == [allocated |-> FALSE, clauses |-> <<>>]

\* QueryUpdate.where(clauses) on the where-group wc
where(wc, clauses) ==
  [allocated |-> TRUE, clauses |-> GroupAdd(wc.clauses, clauses)]

----------------------------------------------------------------------------
\* QueryUpdate.set

\* this.valueSet[key] = dict[key] for one key: an existing key keeps its
\* place, a new key goes last
Put(target, pair) ==
  IF \E i \in 1..Len(target) : target[i].key = pair.key
    THEN [i \in 1..Len(target) |->
            IF target[i].key = pair.key THEN pair ELSE target[i]]
    ELSE target \o <<pair>>

\* set() replacing the whole map by the dictionary's entries
MergeReplacing(target, dict) == dict

\* The merge loop of set(): every own key of dict is put into the target
RECURSIVE MergeInto(_, _)
MergeInto(target, dict) ==
  IF dict = <<>> THEN target
  ELSE MergeInto(Put(target, Head(dict)), Tail(dict))

\* set() refusing only an instance that has its row identifier
SetThrowsWithRowid(m) ==
  m.isDbHelperModel /\ (Truthy(m.rowid) \/ m.rowid = "0")

\* The guard of set(): a live model instance carries $$isDbHelperModel
SetThrows(m) == m.isDbHelperModel

----------------------------------------------------------------------------
\* QueryUpdate.build

\* One column of the loop of getValuesFromModel: is it updated
ColumnUpdated(m, column) ==
  IF m.hasProjection
    THEN \/ \E i \in 1..Len(m.projection) : m.projection[i] = column.name
         \/ Truthy(ModelField(m, column.field))
    ELSE TRUE

\* One column of the loop of getValuesFromModel: the parameter pushed
ColumnParam(m, column) ==
  LET raw == getColumnValue(m, column.name)
      value == IF raw = "undefined" THEN "null" ELSE raw
  IN  IF Truthy(value) /\ IsDbHelperModel(value)
        THEN RelatedField(value, column.field)
        ELSE IF value = "undefined" THEN "null" ELSE value

RECURSIVE ModelColumns(_, _)
ModelColumns(m, columns) ==
  IF columns = <<>> THEN [columnsToUpdate |-> <<>>, params |-> <<>>]
  ELSE LET column == Head(columns)
           rest == ModelColumns(m, Tail(columns))
       IN  IF ColumnUpdated(m, column)
             THEN [columnsToUpdate |-> <<column.name>> \o rest.columnsToUpdate,
                   params |-> <<ColumnParam(m, column)>> \o rest.params]
             ELSE rest

getValuesFromModel(m) ==
  LET acc == ModelColumns(m, getModel(m).columnList)
  IN  [content |-> <<"SET ">> \o
                   Join(acc.columnsToUpdate, <<" = (", "?", "), ">>) \o
                   <<" = (", "?", ")">>,
       params |-> acc.params]

RECURSIVE getValuesFromSet(_)
getValuesFromSet(dict) ==
  IF dict = <<>> THEN EmptyPart
  ELSE LET before == getValuesFromSet(SubSeq(dict, 1, Len(dict) - 1))
       IN  [content |-> before.content \o
                        (IF before.content # <<>> THEN <<", (", "?", ")">>
                                                  ELSE <<"(", "?", ")">>),
            params |-> before.params \o <<dict[Len(dict)].value>>]

\* The first branch of build() without its "|| rowid === 0"
HasTruthyRowid(m) == m.isDbHelperModel /\ Truthy(m.rowid)

\* The first branch of build(): a live instance with a row identifier
HasRowid(m) ==
  m.isDbHelperModel /\ (Truthy(m.rowid) \/ m.rowid = "0")

RECURSIVE PrimaryKeyClauses(_, _)
PrimaryKeyClauses(m, columns) ==
  IF columns = <<>> THEN <<>>
  ELSE (IF Head(columns).primaryKey
          THEN <<Clause(Head(columns).name, ModelField(m, Head(columns).field))>>
          ELSE <<>>) \o PrimaryKeyClauses(m, Tail(columns))

\* The clauses build() hands to this.where(), in order
BuildClauses(m) ==
  IF HasRowid(m) THEN <<Clause("rowid", m.rowid)>>
  ELSE PrimaryKeyClauses(m, getModel(m).columnList)

\* The where-group after the where() calls of build(): where() is called
\* once per clause, so with no clause the group is not allocated by build()
BuildWhere(m, wc) ==
  IF BuildClauses(m) = <<>> THEN wc ELSE where(wc, BuildClauses(m))

\* The test of build() without its count of the map's entries
HasValueSet(vs, h) == vs # NoDict

\* this.valueSet && Object.getOwnPropertyNames(this.valueSet).length
HasValues(vs, h) == vs # NoDict /\ Len(h[vs]) # 0

\* Is ' WHERE' and the rendered group appended
HasWhere(wc) == wc.allocated

\* new DbQuery()
EmptyQuery == [table |-> "", type |-> "", query |-> <<>>, params |-> <<>>]

\* build(): the where-group it leaves, and the DbQuery it returns or the
\* QueryError it throws
build(m, vs, h, wc) ==
  LET dbTable == getModel(m)
      wc2 == BuildWhere(m, wc)
      start == [table |-> dbTable.name, type |-> "UPDATE",
                query |-> <<"UPDATE", " ", dbTable.name>>, params |-> <<>>]
      queryPart == IF m.isDbHelperModel THEN getValuesFromModel(m)
                   ELSE getValuesFromSet(h[vs])
      withSet == append(start, queryPart)
      withWhere == append([withSet EXCEPT !.query = @ \o <<" WHERE">>],
                          GroupBuild(wc2.clauses))
  IN  IF m.isDbHelperModel \/ HasValues(vs, h)
        THEN [where |-> wc2, status |-> "ok",
              dbQuery |-> IF HasWhere(wc2) THEN withWhere ELSE withSet]
        ELSE [where |-> wc2, status |-> "QueryError", dbQuery |-> EmptyQuery]

----------------------------------------------------------------------------
\* QueryCreate.build

\* A column definition that keeps the declared type under auto-increment
ColumnDefinitionDeclaredType(column) ==
  column.name \o " " \o column.type \o
  (IF column.primaryKey THEN " PRIMARY KEY" ELSE "") \o
  (IF column.autoIncrement THEN " AUTOINCREMENT" ELSE "")

\* One column definition of the loop of QueryCreate.build()
ColumnDefinition(column) ==
  column.name \o " " \o
  (IF column.autoIncrement THEN "INTEGER" ELSE column.type) \o
  (IF column.primaryKey THEN " PRIMARY KEY" ELSE "") \o
  (IF column.autoIncrement THEN " AUTOINCREMENT" ELSE "")

RECURSIVE JoinStrings(_, _)
JoinStrings(items, sep) ==
  IF items = <<>> THEN ""
  ELSE IF Len(items) = 1 THEN items[1]
  ELSE items[1] \o sep \o JoinStrings(Tail(items), sep)

createBuild(dbTable) ==
  LET columns == [i \in 1..Len(dbTable.columnList) |->
                    ColumnDefinition(dbTable.columnList[i])]
  IN  "CREATE TABLE IF NOT EXISTS " \o dbTable.name \o " (" \o
      JoinStrings(columns, ",") \o ")"

----------------------------------------------------------------------------
\* The states

\* The model an Update builder is constructed with: a model class, or a live
\* instance of it
TypeModels ==
  {[isDbHelperModel |-> FALSE, class |-> c, rowid |-> "undefined",
    hasProjection |-> FALSE, projection |-> <<>>,
    fields |-> [f \in FieldsOf(c) |-> "undefined"]] : c \in Classes}

Projections == {<<>>, <<"label">>}

\* $$partialWithProjection: absent, or a list of column names
ProjectionChoices ==
  {[hasProjection |-> FALSE, projection |-> <<>>]} \cup
  {[hasProjection |-> TRUE, projection |-> p] : p \in Projections}

InstancesOf(c) ==
  {[isDbHelperModel |-> TRUE, class |-> c, rowid |-> r,
    hasProjection |-> pc.hasProjection, projection |-> pc.projection,
    fields |-> fs] :
      r \in RowIds, pc \in ProjectionChoices, fs \in [FieldsOf(c) -> Values]}

InstanceModels == UNION {InstancesOf(c) : c \in Classes}

Pair(k, v) == [key |-> k, value |-> v]

\* The caller's dictionaries before any call
InitHeap ==
  [d \in DictIds |->
     CASE d = "d1" -> <<Pair("status", "done")>>
       [] d = "d2" -> <<Pair("label", "x"), Pair("status", "todo")>>
       [] OTHER -> <<>>]

\* What the caller passes to where(): a clause, a list, a map; {} and [] too
WhereInputs ==
  { <<>>, <<Clause("id", "5")>>, <<Clause("label", "x"), Clause("id", "5")>> }

\* The table descriptors a Create builder is constructed with
CreateColumns ==
  {Column(n, n, t, pk, ai) :
     n \in {"id", "label", "done"}, t \in {"INTEGER", "TEXT"},
     pk \in BOOLEAN, ai \in BOOLEAN}

CreateTables ==
  {[name |-> "t", columnList |-> cl] :
     cl \in {<<>>} \cup {<<c>> : c \in CreateColumns}
            \cup {cc \in CreateColumns \X CreateColumns :
                    cc[1].name # cc[2].name}
            \cup {cc \in CreateColumns \X CreateColumns \X CreateColumns :
                    Cardinality({cc[1].name, cc[2].name, cc[3].name}) = 3}}

NoTable == [name |-> "", columnList |-> <<>>]

\* The last call: its arguments, what it returned (dbQuery, sql) or threw
\* (status), and whether it handed a statement to QueryManager.query
Op(op, dict, clauses, status, dbQuery, sql, forwarded) ==
  [op |-> op, dict |-> dict, clauses |-> clauses,
   status |-> status, dbQuery |-> dbQuery, sql |-> sql,
   forwarded |-> forwarded]

\* new QueryUpdate(model)
Init ==
  /\ model \in TypeModels \cup InstanceModels
  /\ whereClauses = NoGroup
  /\ valueSet = NoDict
  /\ heap = InitHeap
  /\ callerWhere = <<>>
  /\ table = NoTable
  /\ lastOp = Op("new", NoDict, <<>>, "ok", EmptyQuery, "", FALSE)

\* builder.where(clauses)
Where(clauses) ==
  /\ Len(whereClauses.clauses) + Len(clauses) <= MaxClauses
  /\ whereClauses' = where(whereClauses, clauses)
  /\ callerWhere' = callerWhere \o clauses
  /\ lastOp' = Op("where", NoDict, clauses, "ok", EmptyQuery, "",
                  FALSE)
  /\ UNCHANGED <<model, valueSet, heap, table>>

\* builder.set(dict), dict one of the caller's dictionaries
Set(d) ==
  /\ IF SetThrows(model)
       THEN /\ lastOp' = Op("set", d, <<>>, "QueryError",
                            EmptyQuery, "", FALSE)
            /\ UNCHANGED <<valueSet, heap>>
       ELSE /\ lastOp' = Op("set", d, <<>>, "ok", EmptyQuery, "",
                            FALSE)
            /\ IF valueSet # NoDict
                 THEN /\ heap' = [heap EXCEPT
                                    ![valueSet] = MergeInto(@, heap[d])]
                      /\ UNCHANGED valueSet
                 ELSE /\ valueSet' = d
                      /\ UNCHANGED heap
  /\ UNCHANGED <<model, whereClauses, callerWhere, table>>

\* builder.build()
Build ==
  LET r == build(model, valueSet, heap, whereClauses)
  IN  /\ Len(r.where.clauses) <= MaxClauses
      /\ whereClauses' = r.where
      /\ lastOp' = Op("build", NoDict, <<>>, r.status, r.dbQuery,
                      Sql(r.dbQuery.query), FALSE)
      /\ UNCHANGED <<model, valueSet, heap, callerWhere, table>>

\* builder.exec(): QueryManager.getInstance().query(this.build())
Exec ==
  LET r == build(model, valueSet, heap, whereClauses)
  IN  /\ Len(r.where.clauses) <= MaxClauses
      /\ whereClauses' = r.where
      /\ lastOp' = Op("exec", NoDict, <<>>, r.status, r.dbQuery,
                      Sql(r.dbQuery.query), r.status = "ok")
      /\ UNCHANGED <<model, valueSet, heap, callerWhere, table>>

\* QueryCreate.build() of the Create builder
Create ==
  /\ lastOp' = Op("create", NoDict, <<>>, "ok", EmptyQuery,
                  createBuild(table), FALSE)
  /\ UNCHANGED <<model, whereClauses, valueSet, heap, callerWhere, table>>

Next ==
  \/ \E clauses \in WhereInputs : Where(clauses)
  \/ \E d \in DictIds : Set(d)
  \/ Build
  \/ Exec

Spec == Init /\ [][Next]_vars

\* Create builders alone. new QueryCreate(table): any table descriptor
InitCreate ==
  /\ model \in {m \in TypeModels : m.class = "Todo"}
  /\ whereClauses = NoGroup
  /\ valueSet = NoDict
  /\ heap = InitHeap
  /\ callerWhere = <<>>
  /\ table \in CreateTables
  /\ lastOp = Op("new", NoDict, <<>>, "ok", EmptyQuery, "", FALSE)

NextCreate == Create

SpecCreate == InitCreate /\ [][NextCreate]_vars

----------------------------------------------------------------------------
\* Properties

IsBuild(op) == op.op \in {"build", "exec"}

CountPlaceholders(pieces) ==
  Cardinality({i \in 1..Len(pieces) : pieces[i] = "?"})

ValuesOf(pairs) == [i \in 1..Len(pairs) |-> pairs[i].value]

\* The value map of the builder: the entries of the dictionary it holds
ValueMap(vs, h) == IF vs = NoDict THEN <<>> ELSE h[vs]

\* C1: a statement returned by build() has as many `?` placeholders as
\* params, on the value-map path and on the live-model path.
C1_PlaceholdersMatchParams ==
  (IsBuild(lastOp) /\ lastOp.status = "ok")
    => CountPlaceholders(lastOp.dbQuery.query) = Len(lastOp.dbQuery.params)

\* C2: build() called twice in a row returns the same SQL and the same
\* params, and leaves the where-group as it found it.
C2_BuildTwiceSame ==
  [][(/\ lastOp.op = "build" /\ lastOp.status = "ok"
      /\ lastOp'.op = "build" /\ lastOp'.status = "ok")
       => /\ lastOp'.sql = lastOp.sql
          /\ lastOp'.dbQuery.params = lastOp.dbQuery.params
          /\ whereClauses' = whereClauses]_vars

PrimaryKeyColumns == SelectSeq(getModel(model).columnList,
                               LAMBDA c : c.primaryKey)

\* The clauses C3 gives as the where-target of a live instance
ExpectedTarget ==
  IF model.rowid # "undefined"
    THEN << [key |-> "rowid", value |-> model.rowid] >>
    ELSE [i \in 1..Len(PrimaryKeyColumns) |->
            [key |-> PrimaryKeyColumns[i].name,
             value |-> model.fields[PrimaryKeyColumns[i].field]]]

\* C3: build() on a live instance adds to the where-group exactly one clause
\* on rowid when the instance has a row identifier (0 included), and otherwise
\* exactly one clause per primary-key column, in column order, with the
\* instance's value of the column's field.
C3_WhereTarget ==
  [][(IsBuild(lastOp') /\ model.isDbHelperModel)
       => whereClauses'.clauses = whereClauses.clauses \o ExpectedTarget]_vars

C3_Witness ==
  /\ lastOp.op = "build"
  /\ model.isDbHelperModel /\ model.class = "Pair" /\ model.rowid = "0"
  /\ whereClauses.clauses = << [key |-> "rowid", value |-> "0"] >>

\* C4: built from a model class with a non-empty value map and where-clauses
\* of the caller, the params are the value-map values followed by the values
\* of the caller's clauses, and nothing else.
C4_ValueMapParams ==
  (/\ lastOp.op = "build" /\ lastOp.status = "ok"
   /\ ~model.isDbHelperModel /\ callerWhere # <<>>)
    => lastOp.dbQuery.params =
         ValuesOf(ValueMap(valueSet, heap)) \o ValuesOf(callerWhere)

\* C5: set() on a builder of a live instance throws QueryError, whatever the
\* dictionary and the calls before, and changes neither the value map nor the
\* where-group, and produces no SQL.
C5_SetOnInstanceFails ==
  [][(lastOp'.op = "set" /\ model.isDbHelperModel)
       => /\ lastOp'.status = "QueryError"
          /\ lastOp'.dbQuery = EmptyQuery /\ lastOp'.sql = ""
          /\ ~lastOp'.forwarded
          /\ valueSet' = valueSet /\ heap' = heap
          /\ whereClauses' = whereClauses]_vars

C5_Witness ==
  /\ lastOp.op = "set" /\ lastOp.dict = "d2" /\ lastOp.status = "QueryError"
  /\ model.isDbHelperModel
  /\ whereClauses.clauses # <<>>

\* C6: build() with no live instance and a value map absent or without
\* entries throws QueryError and returns no statement, and exec() then hands
\* nothing to the gateway.
C6_NoValuesFails ==
  (/\ IsBuild(lastOp) /\ ~model.isDbHelperModel
   /\ (valueSet = NoDict \/ heap[valueSet] = <<>>))
    => /\ lastOp.status = "QueryError"
       /\ lastOp.dbQuery = EmptyQuery
       /\ ~lastOp.forwarded

C6_Witness ==
  /\ lastOp.op = "exec" /\ lastOp.status = "QueryError"
  /\ ~model.isDbHelperModel
  /\ valueSet = "d3" /\ heap["d3"] = <<>>

\* The column definition C7 gives, by its four cases
ExpectedDefinition(c) ==
  CASE c.primaryKey /\ c.autoIncrement ->
         c.name \o " INTEGER PRIMARY KEY AUTOINCREMENT"
    [] c.primaryKey /\ ~c.autoIncrement ->
         c.name \o " " \o c.type \o " PRIMARY KEY"
    [] ~c.primaryKey /\ c.autoIncrement ->
         c.name \o " INTEGER AUTOINCREMENT"
    [] OTHER -> c.name \o " " \o c.type

RECURSIVE ExpectedDefinitions(_, _)
ExpectedDefinitions(columns, n) ==
  IF n = 0 THEN ""
  ELSE IF n = 1 THEN ExpectedDefinition(columns[1])
  ELSE ExpectedDefinitions(columns, n - 1) \o "," \o
       ExpectedDefinition(columns[n])

ExampleColumns ==
  << Column("id", "id", "INTEGER", TRUE, TRUE),
     Column("label", "label", "TEXT", FALSE, FALSE) >>

\* C7: Create build() returns CREATE TABLE IF NOT EXISTS <table> (<defs>),
\* one definition per column in column order joined by `,`, each `name type`
\* with PRIMARY KEY and AUTOINCREMENT as flagged and INTEGER for the type
\* under auto-increment; the example table gives the example statement.
C7_CreateStatement ==
  lastOp.op = "create"
    => /\ lastOp.sql =
            "CREATE TABLE IF NOT EXISTS " \o table.name \o " (" \o
            ExpectedDefinitions(table.columnList,
                                Len(table.columnList)) \o ")"
       /\ (table.columnList = ExampleColumns)
            => lastOp.sql = "CREATE TABLE IF NOT EXISTS t " \o
                 "(id INTEGER PRIMARY KEY AUTOINCREMENT,label TEXT)"

C7_Witness ==
  /\ lastOp.op = "create"
  /\ table.columnList = ExampleColumns
  /\ lastOp.sql =
       "CREATE TABLE IF NOT EXISTS t (id INTEGER PRIMARY KEY AUTOINCREMENT,label TEXT)"

Keys(pairs) == {pairs[i].key : i \in 1..Len(pairs)}

\* The entries of a dictionary as a map from key to value
AsMap(pairs) ==
  [k \in Keys(pairs) |->
     pairs[CHOOSE i \in 1..Len(pairs) : pairs[i].key = k].value]

Override(f, g) ==
  [k \in DOMAIN f \cup DOMAIN g |-> IF k \in DOMAIN g THEN g[k] ELSE f[k]]

\* C8: on a builder of a model class every set() leaves the value map equal
\* to the map before it overridden key by key by the dictionary given: a key
\* of the dictionary takes its value, any other key keeps its own, and no
\* other key appears.
C8_SetMerges ==
  [][(lastOp'.op = "set" /\ ~model.isDbHelperModel)
       => /\ AsMap(ValueMap(valueSet', heap')) =
               Override(AsMap(ValueMap(valueSet, heap)),
                        AsMap(heap[lastOp'.dict]))
          /\ Cardinality(Keys(ValueMap(valueSet', heap'))) =
               Len(ValueMap(valueSet', heap'))]_vars

C8_Witness ==
  /\ lastOp.op = "set" /\ lastOp.dict = "d1" /\ lastOp.status = "ok"
  /\ valueSet = "d2"
  /\ heap["d2"] = << Pair("label", "x"), Pair("status", "done") >>

\* C9: the SQL of build() holds ` WHERE` only when the where-group holds at
\* least one clause.
C9_NoDanglingWhere ==
  (IsBuild(lastOp) /\ lastOp.status = "ok")
    => ((\E i \in 1..Len(lastOp.dbQuery.query) :
            lastOp.dbQuery.query[i] = " WHERE")
          => whereClauses.clauses # <<>>)

\* C10: set() never modifies a dictionary of the caller: every dictionary
\* holds what the caller put in it.
C10_CallerDictsUntouched == heap = InitHeap

====
